---- MODULE Spec2Model ----
(***************************************************************************)
(* plaid2text: the classification-and-rendering pipeline and its two       *)
(* transaction stores, modelled from src/src/python/plaid2text.            *)
(*                                                                         *)
(* Texts are sequences of one-character strings, so that strip, split,     *)
(* join, replace and indexing act on them as they do in the code.          *)
(* A Python value whose type matters (a str where a list is expected)      *)
(* is a record [t |-> "str" | "list", v |-> ...].                          *)
(***************************************************************************)
EXTENDS Integers, Sequences, FiniteSets, TLC

(* ------------------------------ bounds --------------------------------- *)
\* how many calls of the storage interface are explored
MaxCalls == 3
\* how many processes of main() are started
MaxRuns == 2
\* how many entries are classified, over all runs
MaxSteps == 2
\* how many tokens the human types in the tag loop of one classification
MaxLoopInputs == 1
\* how many tokens the human types when the tag loop is run on its own
MaxTagInputs == 2
\* the dates of the transactions are 1..MaxDate
MaxDate == 2

(* ------------------------------ texts ---------------------------------- *)

Range(s) == {s[k] : k \in 1..Len(s)}

Lower(c) ==
    CASE c = "A" -> "a"
      [] c = "B" -> "b"
      [] c = "C" -> "c"
      [] OTHER -> c

LowerStr(s) == [k \in 1..Len(s) |-> Lower(s[k])]

RECURSIVE LStrip(_)
LStrip(s) == IF s # <<>> /\ Head(s) = " " THEN LStrip(Tail(s)) ELSE s

RECURSIVE RStrip(_)
RStrip(s) ==
    IF s # <<>> /\ s[Len(s)] = " " THEN RStrip(SubSeq(s, 1, Len(s) - 1)) ELSE s

\* str.strip()
Strip(s) == RStrip(LStrip(s))

StartsWith(s, c) == s # <<>> /\ s[1] = c
EndsWith(s, c) == s # <<>> /\ s[Len(s)] = c

RECURSIVE SplitAcc(_, _, _)
SplitAcc(s, sep, cur) ==
    IF s = <<>> THEN <<cur>>
    ELSE IF Head(s) = sep THEN <<cur>> \o SplitAcc(Tail(s), sep, <<>>)
    ELSE SplitAcc(Tail(s), sep, Append(cur, Head(s)))

\* str.split(sep): every piece, the empty ones included
Split(s, sep) == SplitAcc(s, sep, <<>>)

RECURSIVE NonEmpty(_)
NonEmpty(ss) ==
    IF ss = <<>> THEN <<>>
    ELSE IF Head(ss) = <<>> THEN NonEmpty(Tail(ss))
    ELSE <<Head(ss)>> \o NonEmpty(Tail(ss))

\* str.split(): split on whitespace, no empty piece
SplitWS(s) == NonEmpty(Split(s, " "))

RECURSIVE Join(_, _)
Join(ss, sep) ==
    IF ss = <<>> THEN <<>>
    ELSE IF Len(ss) = 1 THEN ss[1]
    ELSE ss[1] \o sep \o Join(Tail(ss), sep)

RECURSIVE ReplaceColons(_)
\* str.replace('::', ':'): left to right, non-overlapping
ReplaceColons(s) ==
    IF Len(s) < 2 THEN s
    ELSE IF s[1] = ":" /\ s[2] = ":" THEN <<":">> \o ReplaceColons(SubSeq(s, 3, Len(s)))
    ELSE <<s[1]>> \o ReplaceColons(Tail(s))

RECURSIVE ReplaceChar(_, _, _)
\* str.replace(c, r) for a one-character c
ReplaceChar(s, c, r) ==
    IF s = <<>> THEN <<>>
    ELSE (IF Head(s) = c THEN r ELSE <<Head(s)>>) \o ReplaceChar(Tail(s), c, r)

\* p in s, for two str
IsSubstr(p, s) ==
    \E k \in 0..(Len(s) - Len(p)) : SubSeq(s, k + 1, k + Len(p)) = p

(* --------------------------- python values ----------------------------- *)

PyStr(s) == [t |-> "str", v |-> s]
PyList(l) == [t |-> "list", v |-> l]
Truthy(x) == Len(x.v) > 0
PyEq(x, y) == x.t = y.t /\ x.v = y.v

\* the value None where a str is expected
PyNone == <<"None">>

\* x[0]: the first element of a list, the first character of a str
Index0(x) == IF x.t = "list" THEN PyStr(x.v[1]) ELSE PyStr(<<x.v[1]>>)

(* ------------------------------ rules ---------------------------------- *)

\* the answer of a prompt that the human cancels (KeyboardInterrupt, EOFError)
Cancel == <<"^C">>

\* re.compile(p, re.I) fails: of the patterns modelled (literal characters and
\* an opening parenthesis that is never closed) the ones holding "("
ReError(p) == "(" \in Range(p)

\* re.compile(p, re.I).match(d), for a pattern of literal characters: the
\* pattern must match at the start of d, letter case ignored
ReMatch(p, d) ==
    /\ Len(p) <= Len(d)
    /\ LowerStr(SubSeq(d, 1, Len(p))) = LowerStr(p)

\* one row of the rule file -> the tuple appended to self.mappings
MappingOfRow(row) ==
    LET pattern == Strip(row[1])
        payee == Strip(row[2])
        account == Strip(row[3])
        tags == PyList(SubSeq(row, 4, Len(row)))
    IN  IF StartsWith(pattern, "/") /\ EndsWith(pattern, "/")
        THEN <<[re |-> TRUE, v |-> SubSeq(pattern, 2, Len(pattern) - 1)], payee, account, tags>>
        ELSE <<[re |-> FALSE, v |-> pattern], payee, account, tags>>

RECURSIVE ReadRowsSkippingBad(_, _)
\* a read_mapping_file that passes over a row whose regex does not compile:
\* what C16 guards against
ReadRowsSkippingBad(rows, acc) ==
    IF rows = <<>> THEN [exc |-> "none", mappings |-> acc]
    ELSE IF Len(Head(rows)) > 2 /\ ~(MappingOfRow(Head(rows))[1].re
                                     /\ ReError(MappingOfRow(Head(rows))[1].v))
    THEN ReadRowsSkippingBad(Tail(rows), Append(acc, MappingOfRow(Head(rows))))
    ELSE ReadRowsSkippingBad(Tail(rows), acc)

RECURSIVE ReadRows(_, _)
ReadRows(rows, acc) ==
    IF rows = <<>> THEN [exc |-> "none", mappings |-> acc]
    ELSE LET row == Head(rows) IN
         IF Len(row) > 1
         THEN IF Len(row) = 2
              THEN [exc |-> "IndexError", mappings |-> acc]
              ELSE LET m == MappingOfRow(row) IN
                   IF m[1].re /\ ReError(m[1].v)
                   THEN [exc |-> "SystemExit", mappings |-> acc]
                   ELSE ReadRows(Tail(rows), Append(acc, m))
         ELSE ReadRows(Tail(rows), acc)

\* OutputRenderer.read_mapping_file: has_file is bool(self.map_file)
read_mapping_file(has_file, rows) ==
    IF ~has_file THEN [exc |-> "none", mappings |-> <<>>]
    ELSE ReadRows(rows, <<>>)

\* an append_mapping_file that writes the description stripped, as
\* read_mapping_file reads it: what C15 guards against
AppendStripped(has_file, rows, desc, payee, account, tags) ==
    IF has_file
    THEN Append(rows, <<Strip(desc), payee, account, tags.v>>)
    ELSE rows

\* an append_mapping_file that opens the file to write, not to append: what
\* C17 guards against
WriteOver(has_file, rows, desc, payee, account, tags) ==
    IF has_file
    THEN <<(<<desc, payee, account, tags.v>>)>>
    ELSE rows

\* OutputRenderer.append_mapping_file: the rows of the file afterwards
append_mapping_file(has_file, rows, desc, payee, account, tags) ==
    IF has_file
    THEN LET ret_tags == IF Len(tags.v) > 0 THEN tags.v ELSE <<>>
         IN  Append(rows, <<desc, payee, account, ret_tags>>)
    ELSE rows

\* does the pattern of mapping m match the description
Hit(m, desc) ==
    IF ~m[1].re THEN desc = m[1].v ELSE ReMatch(m[1].v, desc)

RECURSIVE MatchLoop(_, _, _)
\* the for loop of get_payee_and_account over self.mappings
MatchLoop(mappings, desc, acc) ==
    IF mappings = <<>> THEN acc
    ELSE LET m == Head(mappings) IN
         MatchLoop(Tail(mappings), desc,
                   IF Hit(m, desc)
                   THEN [payee |-> m[2], account |-> m[3], tags |-> m[4], found |-> TRUE]
                   ELSE acc)

\* if tags: tags = tags[0]
FirstOfTags(r) == [r EXCEPT !.tags = IF Truthy(r.tags) THEN Index0(r.tags) ELSE r.tags]

\* payee, account, tags and found as they stand before the quiet test
Proposal(mappings, desc, default_expense) ==
    FirstOfTags(MatchLoop(mappings, desc,
                          [payee |-> desc, account |-> default_expense,
                           tags |-> PyStr(<<>>), found |-> FALSE]))

(* --------------------------- the tag prompts --------------------------- *)

\* OutputRenderer.prompt_for_value, a the text the human typed
prompt_for_value(text_prompt, a, default) ==
    IF a # <<>> \/ text_prompt = "Tag" THEN a ELSE default

\* BeancountRenderer.tagify
BeancountTagify(value) == ReplaceChar(ReplaceChar(value, " ", <<"-">>), ",", <<>>)

\* LedgerRenderer.tagify: None unless the first condition holds
LedgerTagify(value) ==
    IF ":" \notin Range(value) /\ value[1] # "[" /\ value[Len(value)] # "]"
    THEN <<":">> \o ReplaceChar(ReplaceChar(value, " ", <<"-">>), ",", <<>>) \o <<":">>
    ELSE PyNone

InList(x, l) == \E k \in 1..Len(l) : l[k] = x

RECURSIVE RemoveFirst(_, _)
\* list.remove(x)
RemoveFirst(l, x) ==
    IF l = <<>> THEN <<>>
    ELSE IF Head(l) = x THEN Tail(l)
    ELSE <<Head(l)>> \o RemoveFirst(Tail(l), x)

Raised(e) == [exc |-> e, value |-> <<>>]
Returned(s) == [exc |-> "none", value |-> s]

RECURSIVE LedgerTagLoop(_, _, _)
\* the while loop of LedgerRenderer.prompt_for_tags: toks are the non-blank
\* answers in order, end says whether the last prompt is left blank or cancelled
LedgerTagLoop(tags, toks, end) ==
    IF InList(PyNone, tags) THEN Raised("TypeError")
    ELSE IF toks = <<>>
    THEN IF end = "cancel" THEN Raised("KeyboardInterrupt")
         ELSE Returned(ReplaceColons(Join(tags, <<>>)))
    ELSE LET value == Head(toks) IN
         IF value[1] = "-"
         THEN LET v == LedgerTagify(Tail(value)) IN
              LedgerTagLoop(IF InList(v, tags) THEN RemoveFirst(tags, v) ELSE tags,
                            Tail(toks), end)
         ELSE LET v == LedgerTagify(value) IN
              LedgerTagLoop(IF ~InList(v, tags) THEN Append(tags, v) ELSE tags,
                            Tail(toks), end)

\* LedgerRenderer.prompt_for_tags
LedgerPromptForTags(default, toks, end) ==
    IF Truthy(default) /\ default.t = "list" THEN Raised("AttributeError")
    ELSE LET pieces == IF Truthy(default) THEN NonEmpty(Split(default.v, ":")) ELSE <<>>
             tags == [k \in 1..Len(pieces) |-> <<":">> \o pieces[k] \o <<":">>]
         IN  LedgerTagLoop(tags, toks, end)

\* ' '.join(['#{}'.format(t) for t in tags]): over the elements of a list,
\* over the characters of a str
HashJoin(tags) ==
    IF tags.t = "list"
    THEN Join([k \in 1..Len(tags.v) |-> <<"#">> \o tags.v[k]], <<" ">>)
    ELSE Join([k \in 1..Len(tags.v) |-> <<"#", tags.v[k]>>], <<" ">>)

\* value in tags: membership in a list, substring of a str
PyIn(value, tags) ==
    IF tags.t = "list" THEN InList(value, tags.v) ELSE IsSubstr(value, tags.v)

RECURSIVE BeancountTagLoop(_, _, _)
\* the while loop of BeancountRenderer.prompt_for_tags; a str has neither
\* remove nor append
BeancountTagLoop(tags, toks, end) ==
    IF toks = <<>>
    THEN IF end = "cancel" THEN Raised("KeyboardInterrupt")
         ELSE Returned(HashJoin(tags))
    ELSE LET value == Head(toks) IN
         IF value[1] = "-"
         THEN LET v == BeancountTagify(Tail(value)) IN
              IF PyIn(v, tags)
              THEN IF tags.t = "str" THEN Raised("AttributeError")
                   ELSE BeancountTagLoop(PyList(RemoveFirst(tags.v, v)), Tail(toks), end)
              ELSE BeancountTagLoop(tags, Tail(toks), end)
         ELSE LET v == BeancountTagify(value) IN
              IF ~PyIn(v, tags)
              THEN IF tags.t = "str" THEN Raised("AttributeError")
                   ELSE BeancountTagLoop(PyList(Append(tags.v, v)), Tail(toks), end)
              ELSE BeancountTagLoop(tags, Tail(toks), end)

\* BeancountRenderer.prompt_for_tags: with a non-empty default, tags is the
\* joined str, not a list
BeancountPromptForTags(default, toks, end) ==
    IF Truthy(default) /\ default.t = "list" THEN Raised("AttributeError")
    ELSE LET pieces == IF Truthy(default) THEN SplitWS(default.v) ELSE <<>>
             tags == IF Truthy(default)
                     THEN PyStr(Join([k \in 1..Len(pieces) |-> <<"#">> \o pieces[k]], <<" ">>))
                     ELSE PyList(<<>>)
         IN  BeancountTagLoop(tags, toks, end)

\* self.prompt_for_tags of the renderer main() builds for output_format
prompt_for_tags(output_format, default, toks, end) ==
    IF output_format = "beancount"
    THEN BeancountPromptForTags(default, toks, end)
    ELSE LedgerPromptForTags(default, toks, end)

(* --------------------------- classification ---------------------------- *)

\* cm.CONFIG_DEFAULTS.default_expense, 'Expenses:Unknown', abbreviated
DefaultExpense == <<"E", ":", "U">>

\* The tail of get_payee_and_account, from "if not found or (found and
\* modified)" to the return: e is the exception that ended the prompts, if
\* any.  The record carries the returned tuple and the renderer's mappings,
\* rule file rows and suggestion sets afterwards.
Outcome(self, options, desc, p, e, payee, account, tags, modified, prompted) ==
    LET learn == e = "none" /\ (~p.found \/ (p.found /\ modified)) IN
    [exc |-> e, payee |-> payee, account |-> account, tags |-> tags,
     found |-> p.found, prompted |-> prompted, modified |-> modified,
     learned |-> learn, proposal |-> p,
     mappings |-> IF learn
                  THEN Append(self.mappings,
                              <<[re |-> FALSE, v |-> desc], payee, account, tags>>)
                  ELSE self.mappings,
     rows |-> IF learn
              THEN append_mapping_file(options.mapping_file, self.rows,
                                       desc, payee, account, tags)
              ELSE self.rows,
     possible_payees |-> IF learn THEN self.possible_payees \cup {payee}
                         ELSE self.possible_payees,
     possible_accounts |-> IF learn THEN self.possible_accounts \cup {account}
                           ELSE self.possible_accounts]

\* a get_payee_and_account that learns the rule before it prompts, so that
\* an exception raised at a prompt comes after the append: what C13 guards
\* against
AbortAfterLearning(self, options, desc, p, e) ==
    [exc |-> e, payee |-> p.payee, account |-> p.account, tags |-> p.tags,
     found |-> p.found, prompted |-> TRUE, modified |-> FALSE,
     learned |-> TRUE, proposal |-> p,
     mappings |-> Append(self.mappings,
                         <<[re |-> FALSE, v |-> desc], p.payee, p.account, p.tags>>),
     rows |-> append_mapping_file(options.mapping_file, self.rows,
                                  desc, p.payee, p.account, p.tags),
     possible_payees |-> self.possible_payees,
     possible_accounts |-> self.possible_accounts]

\* an exception raised at a prompt leaves get_payee_and_account
Abort(self, options, desc, p, e) ==
    Outcome(self, options, desc, p, e, p.payee, p.account, p.tags, FALSE, TRUE)

\* after value = self.prompt_for_tags(...): r is what the tag prompt gave
AfterTags(self, options, desc, p, payee, account, modified, r) ==
    IF r.exc # "none" THEN Abort(self, options, desc, p, r.exc)
    ELSE IF r.value # <<>>
    THEN Outcome(self, options, desc, p, "none", payee, account, PyStr(r.value),
                 modified \/ ~PyEq(PyStr(r.value), p.tags), TRUE)
    ELSE Outcome(self, options, desc, p, "none", payee, account, p.tags, modified, TRUE)

\* after value = self.prompt_for_value('Account', ...)
AfterAccount(self, options, desc, p, human, payee, modified, value) ==
    IF ~options.tags
    THEN Outcome(self, options, desc, p, "none", payee,
                 IF value # <<>> THEN value ELSE p.account, p.tags,
                 modified \/ (value # <<>> /\ value # p.account), TRUE)
    ELSE AfterTags(self, options, desc, p, payee,
                   IF value # <<>> THEN value ELSE p.account,
                   modified \/ (value # <<>> /\ value # p.account),
                   prompt_for_tags(options.output_format, p.tags, human.toks, human.end))

\* a payee prompt whose answer is taken as it is, blank included: what C25
\* guards against
AfterPayeeAsTyped(self, options, desc, p, human, value) ==
    IF human.account = Cancel THEN Abort(self, options, desc, p, "KeyboardInterrupt")
    ELSE AfterAccount(self, options, desc, p, human, human.payee,
                      human.payee # p.payee,
                      prompt_for_value("Account", human.account, p.account))

\* after value = self.prompt_for_value('Payee', ...)
AfterPayee(self, options, desc, p, human, value) ==
    IF human.account = Cancel THEN Abort(self, options, desc, p, "KeyboardInterrupt")
    ELSE AfterAccount(self, options, desc, p, human,
                      IF value # <<>> THEN value ELSE p.payee,
                      value # <<>> /\ value # p.payee,
                      prompt_for_value("Account", human.account, p.account))

\* get_payee_and_account from the quiet test on, p the proposal
AfterMatch(self, options, desc, human, p) ==
    IF options.quiet /\ p.found
    THEN Outcome(self, options, desc, p, "none", p.payee, p.account, p.tags, FALSE, FALSE)
    ELSE IF human.payee = Cancel THEN Abort(self, options, desc, p, "KeyboardInterrupt")
    ELSE AfterPayee(self, options, desc, p, human,
                    prompt_for_value("Payee", human.payee, p.payee))

\* OutputRenderer.get_payee_and_account for a renderer self, on an entry
\* whose description is desc; human holds what the human answers at the
\* prompts (payee, account, the tag tokens toks and how the tag loop ends)
get_payee_and_account(self, options, desc, human) ==
    AfterMatch(self, options, desc, human, Proposal(self.mappings, desc, DefaultExpense))

RECURSIVE TagsOfMappings(_, _)
\* the loop of OutputRenderer.__init__ that seeds possible_tags from m[3][0]
TagsOfMappings(mappings, output_format) ==
    IF mappings = <<>> THEN {}
    ELSE LET m == Head(mappings)
             first == IF Truthy(m[4]) THEN Index0(m[4]).v ELSE <<>>
             here == IF ~Truthy(m[4]) THEN {}
                     ELSE IF output_format = "ledger" THEN Range(Split(first, ":"))
                     ELSE {ReplaceChar(t, "#", <<>>) : t \in Range(Split(first, " "))}
         IN  here \cup TagsOfMappings(Tail(mappings), output_format)

\* OutputRenderer.__init__ after read_mapping_file, r what it read
\* (no journal file: get_possible_accounts_and_payees adds nothing)
RendererOver(options, rows, r) ==
    [exc |-> r.exc,
     mappings |-> r.mappings,
     rows |-> rows,
     possible_payees |-> {r.mappings[k][2] : k \in 1..Len(r.mappings)},
     possible_accounts |-> {r.mappings[k][3] : k \in 1..Len(r.mappings)},
     possible_tags |-> TagsOfMappings(r.mappings, options.output_format)]

\* OutputRenderer.__init__: the renderer built over the rule file rows
NewRenderer(options, rows) ==
    RendererOver(options, rows, read_mapping_file(options.mapping_file, rows))

\* Entry.journal_entry: the values substituted into the template
journal_entry(t, options, payee, account, tags) ==
    LET ret_tags == IF Truthy(tags)
                    THEN (IF options.output_format = "beancount"
                          THEN <<" ">> ELSE <<" ", ";", " ">>) \o tags.v
                    ELSE <<>>
    IN  [transaction_id |-> t.transaction_id, name |-> t.name,
         payee |-> payee, associated_account |-> account, tags |-> ret_tags]

\* the fields cm.DEFAULT_LEDGER_TEMPLATE and cm.DEFAULT_BEANCOUNT_TEMPLATE
\* reference
DefaultTemplateFields ==
    {"transaction_date", "cleared_character", "payee", "tags", "name",
     "transaction_id", "associated_account", "currency", "amount", "posting_account"}

\* Entry.__init__: options.addons, when it is there, is the set of the addon
\* names configured; building the addons dict reads the undefined name
\* "fields" once for every addon.  template_file is the set of the fields the
\* file's template references, {} when there is no file or it is empty.
Entry(t, options) ==
    IF "addons" \in DOMAIN options /\ options.addons # {}
    THEN [exc |-> "NameError"]
    ELSE [exc |-> "none",
          transaction |-> [transaction_date |-> "date", currency |-> "USD",
                           posting_account |-> <<"A">>, cleared_character |-> "*",
                           addons |-> {}, transaction_template |-> options.template_file]
                          @@ t]

\* template.format(**format_data): fields are the fields the template
\* references, a field that format_data lacks raises KeyError
TemplateFormat(fields, format_data) ==
    IF fields \subseteq DOMAIN format_data
    THEN [exc |-> "none", text |-> [f \in fields |-> format_data[f]]]
    ELSE [exc |-> "KeyError"]

\* Entry(t, options).journal_entry(payee, account, tags), template and
\* addons included: format_data is the three computed values, updated with
\* the addons (none can be there) and then with the transaction
EntryJournalEntry(e, options, payee, account, tags) ==
    IF e.exc # "none" THEN e
    ELSE TemplateFormat(IF e.transaction.transaction_template # {}
                        THEN e.transaction.transaction_template
                        ELSE DefaultTemplateFields,
                        e.transaction
                        @@ [associated_account |-> account, payee |-> payee,
                            tags |-> journal_entry(e.transaction, options,
                                                   payee, account, tags).tags])

(* ------------------------------ storage -------------------------------- *)

Has(d, k) == k \in DOMAIN d

\* a date bound that is not given (None)
NoDate == 0

StrDate(d) == [ty |-> "str", d |-> d]
DateTime(d) == [ty |-> "datetime", d |-> d]

\* storage_manager.TEXT_DOC['plaid2text']
TEXT_DOC ==
    [tags |-> PyList(<<>>), payee |-> <<>>, posting_account |-> <<>>,
     associated_account |-> <<>>, date_downloaded |-> "today",
     date_last_pulled |-> "", pulled_to_file |-> "False"]

\* one step of the loop of MongoDBStorage.save_transactions, on batch[k];
\* st holds the collection (store, order), the caller's batch and exc
MongoSaveOne(st, k) ==
    LET t == st.batch[k]
        id == t.transaction_id
        t2 == [t EXCEPT !.date = DateTime(t.date.d)]
        mutated == [st EXCEPT !.batch[k] = t2]
    IN  IF t.pending THEN st
        ELSE IF t.date.ty # "str" THEN [st EXCEPT !.exc = "AttributeError"]
        ELSE IF Has(t, "plaid2text") THEN [mutated EXCEPT !.exc = "WriteError"]
        ELSE IF id \in DOMAIN st.store
        THEN [mutated EXCEPT !.store[id].src = t2]
        ELSE [mutated EXCEPT !.store = st.store @@ (id :> [src |-> t2, plaid2text |-> TEXT_DOC]),
                             !.order = Append(st.order, id)]

\* one step of the loop of SQLiteStorage.save_transactions, on batch[k]
SQLiteSaveOne(st, k) ==
    LET t == st.batch[k]
        id == t.transaction_id
        row == IF Has(t, "plaid2text")
               THEN [src |-> t, plaid2text |-> t.plaid2text]
               ELSE [src |-> t]
    IN  IF t.date.ty # "str" THEN [st EXCEPT !.exc = "TypeError"]
        ELSE IF id \in DOMAIN st.store
        THEN [st EXCEPT !.store = [i \in DOMAIN st.store |-> IF i = id THEN row ELSE st.store[i]]]
        ELSE [st EXCEPT !.store = st.store @@ (id :> row),
                        !.order = Append(st.order, id)]

RECURSIVE SaveLoop(_, _, _)
SaveLoop(db, st, k) ==
    IF k > Len(st.batch) \/ st.exc # "none" THEN st
    ELSE SaveLoop(db, IF db = "mongodb" THEN MongoSaveOne(st, k) ELSE SQLiteSaveOne(st, k), k + 1)

\* sm.save_transactions(batch) of the storage manager main() builds for dbtype
save_transactions(db, store, order, batch) ==
    SaveLoop(db, [store |-> store, order |-> order, batch |-> batch, exc |-> "none"], 1)

\* the query of MongoDBStorage.get_transactions, on one document
MongoQuery(doc, from_date, to_date, only_new) ==
    /\ only_new =>
          ~(/\ Has(doc, "plaid2text")
            /\ Has(doc.plaid2text, "pulled_to_file")
            /\ doc.plaid2text.pulled_to_file = "True")
    /\ IF from_date # NoDate /\ to_date # NoDate /\ from_date <= to_date
       THEN from_date <= doc.src.date.d /\ doc.src.date.d <= to_date
       ELSE IF from_date # NoDate /\ to_date = NoDate
       THEN doc.src.date.d >= from_date
       ELSE IF from_date = NoDate /\ to_date # NoDate
       THEN doc.src.date.d <= to_date
       ELSE TRUE

\* how a 'YYYY-MM-DD' text and a datetime bound as 'YYYY-MM-DD 00:00:00'
\* compare as texts: the shorter one sorts first on the same day
DateText(d) == 2 * d
DateTimeText(d) == 2 * d + 1

\* the where clause of SQLiteStorage.get_transactions, on one row: only_new
\* reads pulled_to_file from plaid_json, the first two bounds are formatted
\* with strftime, a single bound is bound as the datetime itself
SQLiteQuery(row, from_date, to_date, only_new) ==
    /\ only_new =>
          (IF Has(row.src, "pulled_to_file") THEN row.src.pulled_to_file ELSE "False") = "False"
    /\ IF from_date # NoDate /\ to_date # NoDate /\ from_date <= to_date
       THEN DateText(from_date) <= DateText(row.src.date.d)
            /\ DateText(row.src.date.d) <= DateText(to_date)
       ELSE IF from_date # NoDate /\ to_date = NoDate
       THEN DateText(row.src.date.d) >= DateTimeText(from_date)
       ELSE IF from_date = NoDate /\ to_date # NoDate
       THEN DateText(row.src.date.d) <= DateTimeText(to_date)
       ELSE TRUE

RECURSIVE Filter(_, _, _, _, _, _)
\* the ids of order whose record satisfies the backend's query, in order
Filter(db, store, order, from_date, to_date, only_new) ==
    IF order = <<>> THEN <<>>
    ELSE LET id == Head(order)
             ok == IF db = "mongodb"
                   THEN MongoQuery(store[id], from_date, to_date, only_new)
                   ELSE SQLiteQuery(store[id], from_date, to_date, only_new)
         IN  (IF ok THEN <<id>> ELSE <<>>)
             \o Filter(db, store, Tail(order), from_date, to_date, only_new)

RECURSIVE InsertByDate(_, _, _)
InsertByDate(store, sorted, id) ==
    IF sorted = <<>> THEN <<id>>
    ELSE IF store[Head(sorted)].src.date.d <= store[id].src.date.d
    THEN <<Head(sorted)>> \o InsertByDate(store, Tail(sorted), id)
    ELSE <<id>> \o sorted

RECURSIVE SortByDate(_, _)
\* cursor.sort('date', ASCENDING); equal dates keep the natural order
SortByDate(store, ids) ==
    IF ids = <<>> THEN <<>>
    ELSE InsertByDate(store, SortByDate(store, SubSeq(ids, 1, Len(ids) - 1)), ids[Len(ids)])

\* sm.get_transactions(from_date, to_date, only_new): the ids of the records
\* returned, in the order returned (SQLite: no ORDER BY, the rowid order)
get_transactions(db, store, order, from_date, to_date, only_new) ==
    LET ids == Filter(db, store, order, from_date, to_date, only_new) IN
    IF db = "mongodb" THEN SortByDate(store, ids) ELSE ids

\* update_transaction without its "if mark_pulled:" stamp: what C11 guards
\* against
UpdateDictNoStamp(update, mark_pulled) ==
    [k \in (DOMAIN update \ {"transaction_id"}) \cup {"pulled_to_file"} |->
        IF k = "pulled_to_file" THEN mark_pulled ELSE update[k]]

\* the dict update_transaction writes: update without transaction_id, with
\* pulled_to_file and, when mark_pulled is true, date_last_pulled
UpdateDict(update, mark_pulled) ==
    LET keys == (DOMAIN update \ {"transaction_id"}) \cup {"pulled_to_file"}
                \cup (IF mark_pulled = "True" THEN {"date_last_pulled"} ELSE {})
    IN  [k \in keys |->
            IF k = "pulled_to_file" THEN mark_pulled
            ELSE IF k = "date_last_pulled" THEN "now"
            ELSE update[k]]

\* MongoDBStorage.update_transaction: $set replaces the whole plaid2text
MongoUpdate(store, update, mark_pulled) ==
    LET id == update.transaction_id IN
    [exc |-> "none",
     store |-> IF id \in DOMAIN store
               THEN [i \in DOMAIN store |->
                        IF i = id
                        THEN [src |-> store[i].src, plaid2text |-> UpdateDict(update, mark_pulled)]
                        ELSE store[i]]
               ELSE store]

\* SQLiteStorage.update_transaction: the name null is not defined, so the
\* call raises before the update statement runs
SQLiteUpdate(store, update, mark_pulled) ==
    [exc |-> "NameError", store |-> store]

\* sm.update_transaction(update, mark_pulled)
update_transaction(db, store, update, mark_pulled) ==
    IF db = "mongodb" THEN MongoUpdate(store, update, mark_pulled)
    ELSE SQLiteUpdate(store, update, mark_pulled)

(* ------------------------------- state --------------------------------- *)

VARIABLES
    dbtype,             \* options.dbtype: which storage manager main() builds
    config,             \* the account's section of the config file
    store,              \* the collection / table: transaction id -> record
    order,              \* the ids in insertion (natural, rowid) order
    batch,              \* the list object the caller last passed to save_transactions
    calls,              \* how many calls of the storage interface have been made
    runs,               \* how many processes of main() have been started
    steps,              \* how many entries have been classified, over all runs
    pc,                 \* where the process of main() stands
    options,            \* the parsed options of the running process
    transactions,       \* self.transactions: what get_transactions returned
    idx,                \* position of the for loop of _process_plaid_transactions
    mappings,           \* self.mappings
    map_rows,           \* the rows of the rule file on disk
    possible_payees,    \* self.possible_payees
    possible_accounts,  \* self.possible_accounts
    possible_tags,      \* self.possible_tags
    journal_lines,      \* self.journal_lines
    outfile,            \* what has been written to the stream options.outfile
    learnt,             \* the rules learned so far, run by run, in order
    last                \* the latest call: its arguments and its outcome

vars == <<dbtype, config, store, order, batch, calls, runs, steps, pc, options, transactions, idx,
          mappings, map_rows, possible_payees, possible_accounts, possible_tags,
          journal_lines, outfile, learnt, last>>

storeVars == <<store, order, batch>>
runVars == <<pc, options, transactions, idx, mappings, possible_payees,
             possible_accounts, possible_tags, journal_lines, outfile>>

(* ------------------------------ inputs --------------------------------- *)

TransactionIds == {"t1", "t2"}

\* descriptions ('name') of the transactions of the store specification
d_ab == <<"a", "b">>

\* the transactions the source may hand to save_transactions
SourceTransactions ==
    {[transaction_id |-> i, account_id |-> "acct", date |-> StrDate(d),
      name |-> d_ab, pending |-> p] :
        i \in TransactionIds, d \in 1..MaxDate, p \in BOOLEAN}

\* metadata of a record that some run wrote to file
PulledMeta ==
    [tags |-> PyStr(<<>>), payee |-> <<"P">>, posting_account |-> <<"A">>,
     associated_account |-> <<"X">>, pulled_to_file |-> "True",
     date_last_pulled |-> "now"]

\* a transaction read back from a store, plaid2text included
CarryingTransactions ==
    {[transaction_id |-> "t1", account_id |-> "acct", date |-> StrDate(1),
      name |-> d_ab, pending |-> FALSE, plaid2text |-> PulledMeta]}

Batches ==
    LET T == SourceTransactions \cup CarryingTransactions IN
    {<<t>> : t \in T}
    \cup {b \in {<<t, u>> : t \in T, u \in SourceTransactions} :
            b[1].transaction_id # b[2].transaction_id}

\* the dicts _process_plaid_transactions builds for the callback
Updates ==
    {[transaction_id |-> i, tags |-> PyStr(<<>>), associated_account |-> <<"X">>,
      payee |-> <<"P">>, posting_account |-> <<"A">>] : i \in TransactionIds}

EmptyStore == [i \in {} |-> 0]

NoOptions == [quiet |-> FALSE]
NoConfig == [output_format |-> "beancount"]
NoCall == [op |-> "none"]

\* the process of main() has not been started
RunIdle ==
    /\ pc = "idle"
    /\ options = NoOptions
    /\ transactions = <<>>
    /\ idx = 0
    /\ mappings = <<>>
    /\ possible_payees = {}
    /\ possible_accounts = {}
    /\ possible_tags = {}
    /\ journal_lines = <<>>
    /\ outfile = <<>>

(* ------------------------ the storage interface ------------------------ *)

InitStore ==
    /\ dbtype \in {"mongodb", "sqlite"}
    /\ config = NoConfig
    /\ store = EmptyStore
    /\ order = <<>>
    /\ batch = <<>>
    /\ calls = 0
    /\ runs = 0
    /\ steps = 0
    /\ map_rows = <<>>
    /\ learnt = <<>>
    /\ last = NoCall
    /\ RunIdle

\* sm.save_transactions(b) on the list b; again says that b is the list
\* object of the call before
DoSave(b, again) ==
    LET r == save_transactions(dbtype, store, order, b) IN
    /\ calls < MaxCalls
    /\ calls' = calls + 1
    /\ store' = r.store
    /\ order' = r.order
    /\ batch' = r.batch
    /\ last' = [op |-> "save", again |-> again, exc |-> r.exc, arg |-> b,
                pre |-> store]
    /\ UNCHANGED <<dbtype, config, learnt, map_rows, runs, steps>>
    /\ UNCHANGED runVars

\* the caller saves a batch just fetched from the source
SaveTransactions == \E b \in Batches : DoSave(b, FALSE)

\* the caller passes the same list once more, right after a call that completed
SaveTransactionsAgain ==
    /\ last.op = "save"
    /\ last.exc = "none"
    /\ DoSave(batch, TRUE)

GetTransactions ==
    \E from_date \in 0..MaxDate, to_date \in 0..MaxDate, only_new \in BOOLEAN :
        /\ calls < MaxCalls
        /\ calls' = calls + 1
        /\ last' = [op |-> "get", from_date |-> from_date, to_date |-> to_date,
                    only_new |-> only_new,
                    ret |-> get_transactions(dbtype, store, order, from_date, to_date, only_new)]
        /\ UNCHANGED <<dbtype, config, learnt, map_rows, runs, steps>>
        /\ UNCHANGED storeVars
        /\ UNCHANGED runVars

UpdateTransaction ==
    \E update \in Updates, mark_pulled \in {"True", "False", "None"} :
        LET r == update_transaction(dbtype, store, update, mark_pulled) IN
        /\ calls < MaxCalls
        /\ calls' = calls + 1
        /\ store' = r.store
        /\ last' = [op |-> "update", exc |-> r.exc, update |-> update,
                    mark_pulled |-> mark_pulled, pre |-> store]
        /\ UNCHANGED <<dbtype, config, learnt, map_rows, runs, steps, order, batch>>
        /\ UNCHANGED runVars

NextStore ==
    \/ SaveTransactions
    \/ SaveTransactionsAgain
    \/ GetTransactions
    \/ UpdateTransaction

SpecStore == InitStore /\ [][NextStore]_vars

(* ------------------------------ main() --------------------------------- *)

\* the process of main() is not running: a new one may be started
Stopped == pc \in {"idle", "done", "interrupted", "crashed", "exit1"}

\* the options of a process: cli holds the flags of its command line, the
\* rest comes from the config file.  options.no_mark_pulled is an argparse
\* store_false: FALSE only when --no-mark-pulled is given.
Options(cli) ==
    [quiet |-> cli.quiet,
     no_mark_pulled |-> cli.no_mark_pulled,
     all_transactions |-> cli.all_transactions,
     outfile |-> cli.outfile,
     from_date |-> cli.from_date,
     to_date |-> cli.to_date,
     tags |-> config.tags,
     output_format |-> config.output_format,
     mapping_file |-> config.mapping_file,
     headers_file |-> config.headers_file]

\* main() once trxs and the renderer out are built
Started(opts, trxs, out) ==
    /\ Stopped
    /\ runs < MaxRuns
    /\ runs' = runs + 1
    /\ options' = opts
    /\ transactions' = [k \in 1..Len(trxs) |->
                           [transaction_id |-> trxs[k], name |-> store[trxs[k]].src.name]]
    /\ idx' = 1
    /\ pc' = IF out.exc = "none" THEN "running"
             ELSE IF out.exc = "SystemExit" THEN "exit1" ELSE "crashed"
    /\ mappings' = out.mappings
    /\ possible_payees' = out.possible_payees
    /\ possible_accounts' = out.possible_accounts
    /\ possible_tags' = out.possible_tags
    /\ journal_lines' = <<>>
    /\ outfile' = <<>>
    /\ last' = [op |-> "start", exc |-> out.exc, ret |-> trxs]
    /\ UNCHANGED <<dbtype, config, learnt, map_rows, calls, steps>>
    /\ UNCHANGED storeVars

\* main() from sm.get_transactions to the renderer's construction
StartWith(opts) ==
    Started(opts,
            get_transactions(dbtype, store, order, opts.from_date, opts.to_date,
                             ~opts.all_transactions),
            NewRenderer(opts, map_rows))

\* a process of main() is started with the command line cli
StartRun(cli) == StartWith(Options(cli))

\* the dict _process_plaid_transactions hands to the callback
Dic(t, r) ==
    [transaction_id |-> t.transaction_id, tags |-> r.tags,
     associated_account |-> r.account, payee |-> r.payee,
     posting_account |-> <<"A">>]

\* an iteration that prints the rendered entry as soon as it is classified:
\* what C14 guards against
PrintedAtOnce(t, r, exc) ==
    IF exc = "none"
    THEN <<[kind |-> "entry", e |-> journal_entry(t, options, r.payee, r.account, r.tags)]>>
    ELSE <<>>

\* what one iteration prints on sys.stdout, as far as sys.stdout is the
\* stream options.outfile: the query line shown before the prompts and, when
\* main() catches the interruption, its message
Printed(t, r, exc) ==
    IF options.outfile = "stdout"
    THEN (IF r.prompted
          THEN <<[kind |-> "query", transaction_id |-> t.transaction_id]>> ELSE <<>>)
         \o (IF exc = "KeyboardInterrupt" THEN <<[kind |-> "interrupted"]>> ELSE <<>>)
    ELSE <<>>

\* the iteration's effect: r is what get_payee_and_account gave, u what the
\* callback did to the store, exc the exception that left the loop, if any
Processed(t, human, r, u, exc) ==
    /\ pc = "running"
    /\ idx <= Len(transactions)
    /\ steps < MaxSteps
    /\ steps' = steps + 1
    /\ mappings' = r.mappings
    /\ map_rows' = r.rows
    /\ possible_payees' = r.possible_payees
    /\ possible_accounts' = r.possible_accounts
    /\ store' = u.store
    /\ pc' = IF exc = "none" THEN "running"
             ELSE IF exc = "KeyboardInterrupt" THEN "interrupted" ELSE "crashed"
    /\ idx' = IF exc = "none" THEN idx + 1 ELSE idx
    /\ journal_lines' =
          IF exc = "none"
          THEN Append(journal_lines, journal_entry(t, options, r.payee, r.account, r.tags))
          ELSE journal_lines
    /\ last' = [op |-> "classify", exc |-> exc, transaction_id |-> t.transaction_id,
                desc |-> t.name,
                blank |-> [payee |-> human.payee = <<>>, account |-> human.account = <<>>,
                           tags |-> human.toks = <<>>],
                toks |-> IF r.exc = "none" /\ r.prompted /\ options.tags
                         THEN human.toks ELSE <<>>,
                payee |-> r.payee, account |-> r.account, tags |-> r.tags,
                found |-> r.found, prompted |-> r.prompted,
                modified |-> r.modified, learned |-> r.learned,
                proposal |-> r.proposal,
                updated |-> (r.exc = "none" /\ options.no_mark_pulled),
                pre_mappings |-> mappings, pre_rows |-> map_rows, pre |-> store]
    /\ outfile' = outfile \o Printed(t, r, exc)
    /\ learnt' = IF r.learned
                 THEN Append(learnt, [run |-> runs, desc |-> t.name, found |-> r.found,
                                      payee |-> r.payee, account |-> r.account,
                                      tags |-> r.tags])
                 ELSE learnt
    /\ UNCHANGED <<dbtype, config, order, batch, calls, runs, options, transactions,
                   possible_tags>>

\* a callback whose failure is caught and dropped: what C24 guards against
CallbackSwallowing(t, human, r, u) ==
    Processed(t, human, r, u, r.exc)

\* "if callback: callback(dic)": main() passes a callback when
\* options.no_mark_pulled is true, and the callback marks with False
Callback(t, human, r, u) ==
    Processed(t, human, r, u, IF r.exc # "none" THEN r.exc ELSE u.exc)

\* a main() that passes the marking callback whatever the options say: what
\* C20 guards against
ClassifiedMarking(t, human, r) ==
    Callback(t, human, r,
             IF r.exc = "none"
             THEN update_transaction(dbtype, store, Dic(t, r), "True")
             ELSE [exc |-> "none", store |-> store])

Classified(t, human, r) ==
    Callback(t, human, r,
             IF r.exc = "none" /\ options.no_mark_pulled
             THEN update_transaction(dbtype, store, Dic(t, r), "False")
             ELSE [exc |-> "none", store |-> store])

\* one iteration of the for loop of _process_plaid_transactions: the entry
\* is classified (the human answers the prompts), the callback main() passed
\* updates the store, and the rendered entry joins journal_lines.  An
\* exception leaves the loop: KeyboardInterrupt and EOFError are caught by
\* main(), anything else ends the process with a traceback.
ProcessNext(human) ==
    /\ pc = "running"
    /\ idx <= Len(transactions)
    /\ Classified(transactions[idx], human,
                  get_payee_and_account(
                      [mappings |-> mappings, rows |-> map_rows,
                       possible_payees |-> possible_payees,
                       possible_accounts |-> possible_accounts],
                      options, transactions[idx].name, human))

\* the end of process_transactions: the headers, then every journal line
FinishRun ==
    /\ pc = "running"
    /\ idx > Len(transactions)
    /\ pc' = "done"
    /\ outfile' = outfile
                  \o (IF options.headers_file THEN <<[kind |-> "headers"]>> ELSE <<>>)
                  \o [k \in 1..Len(journal_lines) |-> [kind |-> "entry", e |-> journal_lines[k]]]
    /\ last' = [op |-> "finish"]
    /\ UNCHANGED <<dbtype, config, learnt, calls, runs, steps, options, transactions, idx, mappings, map_rows,
                   possible_payees, possible_accounts, possible_tags, journal_lines>>
    /\ UNCHANGED storeVars

(* ------------------- classification, run after run --------------------- *)

d_sp_ab == <<" ", "a", "b">>
d_slashed == <<"/", "a", "b", "/">>
d_Abc == <<"A", "b", "c">>
d_cab == <<"c", "a", "b">>
food == <<"f", "o", "o", "d">>
lunch == <<"l", "u", "n", "c", "h">>

Tx(i, d, name) ==
    [transaction_id |-> i, account_id |-> "acct", date |-> StrDate(d),
     name |-> name, pending |-> FALSE]

\* what the store holds when the runs begin: one saved batch
SeedBatches ==
    { <<Tx("t1", 1, d_ab), Tx("t2", 2, d_ab)>>,
      <<Tx("t1", 1, d_sp_ab)>>,
      <<Tx("t1", 1, d_slashed)>>,
      <<Tx("t1", 1, d_Abc), Tx("t2", 2, d_cab)>> }

\* the rule file before the first run, as rows of fields
InitialRuleFiles ==
    { <<>>,
      << <<d_ab, <<"P">>, <<"A">>, food>>, <<<<"/", "a", "/">>, <<"Q">>, <<"B">>>> >>,
      << <<<<"/", "a", "/">>, <<"Q">>, <<"B">>, <<":">> \o food \o <<":">>>>,
         <<d_ab, <<"P">>, <<"A">>, <<"#">> \o food>> >>,
      << <<<<"/", "(", "/">>, <<"P">>, <<"A">>>> >> }

\* what the human may type at a tag prompt
TagTokens == {food, <<"-">> \o food, lunch}

RECURSIVE SeqsUpTo(_, _)
SeqsUpTo(S, n) ==
    IF n = 0 THEN {<<>>}
    ELSE LET shorter == SeqsUpTo(S, n - 1) IN
         shorter \cup {Append(q, x) : q \in shorter, x \in S}

\* what the human may answer while one entry is classified
Humans ==
    [payee : {<<>>, <<"P">>, Cancel},
     account : {<<>>, <<"X">>, Cancel},
     toks : SeqsUpTo(TagTokens, MaxLoopInputs),
     end : {"blank", "cancel"}]

\* answers never read are left blank
Relevant(human) ==
    /\ ~options.tags => human.toks = <<>> /\ human.end = "blank"
    /\ human.payee = Cancel => human.account = <<>> /\ human.toks = <<>> /\ human.end = "blank"
    /\ human.account = Cancel => human.toks = <<>> /\ human.end = "blank"

InitClassify ==
    /\ dbtype = "mongodb"
    /\ config \in [output_format : {"ledger", "beancount"}, tags : BOOLEAN,
                   mapping_file : BOOLEAN, headers_file : BOOLEAN]
    /\ \E b \in SeedBatches :
          LET r == save_transactions(dbtype, EmptyStore, <<>>, b) IN
          /\ store = r.store
          /\ order = r.order
          /\ batch = r.batch
    /\ calls = 0
    /\ runs = 0
    /\ steps = 0
    /\ map_rows \in (IF config.mapping_file THEN InitialRuleFiles ELSE {<<>>})
    /\ learnt = <<>>
    /\ last = NoCall
    /\ RunIdle

\* plaid2text ACCOUNT [FILE] --no-mark-pulled [--quiet]
RunUnmarked ==
    \E quiet \in BOOLEAN, out \in {"stdout", "file"} :
        StartRun([quiet |-> quiet, no_mark_pulled |-> FALSE, all_transactions |-> FALSE,
                  outfile |-> out, from_date |-> NoDate, to_date |-> NoDate])

Classify ==
    /\ pc = "running"
    /\ \E human \in Humans : Relevant(human) /\ ProcessNext(human)

NextClassify ==
    \/ RunUnmarked
    \/ Classify
    \/ FinishRun

SpecClassify == InitClassify /\ [][NextClassify]_vars

(* ---------------------- claims on the storage interface ---------------- *)

\* two records carry the same classification metadata (or both carry none)
SameMeta(a, b) ==
    /\ Has(a, "plaid2text") = Has(b, "plaid2text")
    /\ Has(a, "plaid2text") => a.plaid2text = b.plaid2text

DateOf(i) == store[i].src.date.d

\* C3: a second save_transactions call on the identical batch completes and
\* leaves the number of records and every record's metadata as the first
\* call left them, in both backends.
C3_SecondSaveIsIdempotent ==
    (last.op = "save" /\ last.again) =>
        /\ last.exc = "none"
        /\ DOMAIN store = DOMAIN last.pre
        /\ \A i \in DOMAIN store : SameMeta(store[i], last.pre[i])

\* C4: save_transactions never clobbers the metadata of a record that is
\* already stored, and a record inserted for the first time gets the default
\* metadata, pulled_to_file = false.
C4_SaveKeepsMetadata ==
    (last.op = "save" /\ last.exc = "none") =>
        \A i \in DOMAIN store :
            IF i \in DOMAIN last.pre
            THEN Has(last.pre[i], "plaid2text") => SameMeta(store[i], last.pre[i])
            ELSE /\ Has(store[i], "plaid2text")
                 /\ store[i].plaid2text = TEXT_DOC

\* C5: get_transactions returns exactly the stored records whose date
\* satisfies every given bound inclusively, in ascending order of date
\* (stated on the calls with only_new = false, where nothing else filters).
C5_DateFilterExactAndSorted ==
    (last.op = "get" /\ ~last.only_new) =>
        /\ Range(last.ret) =
              {i \in DOMAIN store :
                  /\ last.from_date # NoDate => last.from_date <= DateOf(i)
                  /\ last.to_date # NoDate => DateOf(i) <= last.to_date}
        /\ \A j \in 1..Len(last.ret), k \in 1..Len(last.ret) :
              j < k => DateOf(last.ret[j]) <= DateOf(last.ret[k])


(* ------------------------ the tag loop on its own ---------------------- *)

\* the defaults a tag prompt may start from: tags[0] of the matched rule
TagDefaults == {<<>>, food, <<"#">> \o food, <<":">> \o food \o <<":">>}

\* the arguments of one call of prompt_for_tags
TagCalls ==
    [op : {"ask"}, output_format : {"ledger", "beancount"}, default : TagDefaults,
     toks : SeqsUpTo(TagTokens, MaxTagInputs), end : {"blank", "cancel"}]

InitTags ==
    /\ dbtype = "mongodb"
    /\ config = NoConfig
    /\ store = EmptyStore
    /\ order = <<>>
    /\ batch = <<>>
    /\ calls = 0
    /\ runs = 0
    /\ steps = 0
    /\ map_rows = <<>>
    /\ learnt = <<>>
    /\ last \in TagCalls
    /\ RunIdle

\* self.prompt_for_tags('Tag', self.possible_tags, default), the human
\* typing toks and then leaving the prompt as end says
PromptForTags ==
    /\ last.op = "ask"
    /\ last' = [op |-> "tags", output_format |-> last.output_format,
                default |-> last.default, toks |-> last.toks, end |-> last.end,
                ret |-> prompt_for_tags(last.output_format, PyStr(last.default),
                                        last.toks, last.end)]
    /\ UNCHANGED <<dbtype, config, learnt, map_rows, calls, runs, steps>>
    /\ UNCHANGED storeVars
    /\ UNCHANGED runVars

NextTags == PromptForTags

SpecTags == InitTags /\ [][NextTags]_vars

(* ------------------------ rendering on its own ------------------------- *)

\* a source transaction with its amount, carrying a key addon_memo or not
Rendered(carried) ==
    (IF carried THEN [addon_memo |-> <<"m">>] ELSE [amount |-> "1.00"])
    @@ [amount |-> "1.00"] @@ Tx("t1", 1, d_ab)

\* the templates: none, and one that also references the addon addon_memo
Templates == {{}, DefaultTemplateFields \cup {"addon_memo"}}

\* one entry to render: addons says whether options has no addons, an empty
\* addons dict, or the addon addon_memo configured
RenderCalls ==
    [op : {"enter"}, output_format : {"ledger", "beancount"}, template : Templates,
     addons : {"absent", "empty", "memo"}, carried : BOOLEAN,
     payee : {d_ab, <<"P">>}, tags : {<<>>, <<":">> \o food \o <<":">>, <<"#">> \o food}]

\* the options of the process that renders the entry
RenderOptions(c) ==
    (IF c.addons = "absent" THEN [template_file |-> c.template]
     ELSE [addons |-> IF c.addons = "memo" THEN {"addon_memo"} ELSE {}])
    @@ [output_format |-> c.output_format, template_file |-> c.template]

InitRender ==
    /\ dbtype = "mongodb"
    /\ config = NoConfig
    /\ store = EmptyStore
    /\ order = <<>>
    /\ batch = <<>>
    /\ calls = 0
    /\ runs = 0
    /\ steps = 0
    /\ map_rows = <<>>
    /\ learnt = <<>>
    /\ last \in RenderCalls
    /\ RunIdle

\* Entry(t, options).journal_entry(payee, account, tags)
JournalEntry ==
    /\ last.op = "enter"
    /\ last' = [op |-> "journal_entry", template |-> last.template,
                addons |-> last.addons, carried |-> last.carried,
                output_format |-> last.output_format, tags |-> last.tags,
                ret |-> EntryJournalEntry(Entry(Rendered(last.carried), RenderOptions(last)),
                                          RenderOptions(last), last.payee,
                                          DefaultExpense, PyStr(last.tags))]
    /\ UNCHANGED <<dbtype, config, learnt, map_rows, calls, runs, steps>>
    /\ UNCHANGED storeVars
    /\ UNCHANGED runVars

NextRender == JournalEntry

SpecRender == InitRender /\ [][NextRender]_vars

(* --------------------------- the whole program ------------------------- *)

Init ==
    /\ dbtype \in {"mongodb", "sqlite"}
    /\ config = [output_format |-> "beancount", tags |-> FALSE,
                 mapping_file |-> TRUE, headers_file |-> TRUE]
    /\ store = EmptyStore
    /\ order = <<>>
    /\ batch = <<>>
    /\ calls = 0
    /\ runs = 0
    /\ steps = 0
    /\ map_rows = <<>>
    /\ learnt = <<>>
    /\ last = NoCall
    /\ RunIdle

\* the lists fetched from the source
Downloads ==
    { <<Tx("t1", 1, d_ab)>>,
      <<Tx("t1", 1, d_ab), Tx("t2", 2, d_cab)>> }

\* a list fetched from the source is saved through the storage manager
\* (sm.save_transactions(trans))
Download ==
    /\ Stopped
    /\ \E b \in Downloads : DoSave(b, FALSE)

\* another user of the storage manager updates a record
Update ==
    /\ Stopped
    /\ UpdateTransaction

\* plaid2text ACCOUNT [FILE] [--quiet] [--no-mark-pulled] [--all-transactions]
\* [--from-date D]
Run ==
    \E quiet \in BOOLEAN, marking \in BOOLEAN, all_transactions \in BOOLEAN,
       out \in {"stdout", "file"}, from_date \in {NoDate, MaxDate} :
        StartRun([quiet |-> quiet, no_mark_pulled |-> marking,
                  all_transactions |-> all_transactions, outfile |-> out,
                  from_date |-> from_date, to_date |-> NoDate])

Next ==
    \/ Download
    \/ Update
    \/ Run
    \/ Classify
    \/ FinishRun

Spec == Init /\ [][Next]_vars

(* ------------------------ claims on classification -------------------- *)

\* the positions of the rules of ms whose pattern matches desc
Hits(ms, desc) == {k \in 1..Len(ms) : Hit(ms[k], desc)}

Max(S) == CHOOSE x \in S : \A y \in S : y <= x

\* a rule's tags as one text: the single tag column of a row read from the
\* file is that column, no column is the empty text
TagsText(x) ==
    IF x.t = "list" /\ Len(x.v) = 1 THEN PyStr(x.v[1])
    ELSE IF x.t = "list" /\ x.v = <<>> THEN PyStr(<<>>)
    ELSE x

SameTags(x, y) == PyEq(TagsText(x), TagsText(y))

\* C1: classification proposes the payee, account and tags of the last rule
\* whose pattern matches the description, and reports "found" exactly when
\* some rule matches.
C1_LastMatchingRuleWins ==
    last.op = "classify" =>
        LET hits == Hits(last.pre_mappings, last.desc) IN
        /\ last.proposal.found = (hits # {})
        /\ hits # {} =>
              LET m == last.pre_mappings[Max(hits)] IN
              /\ last.proposal.payee = m[2]
              /\ last.proposal.account = m[3]
              /\ SameTags(last.proposal.tags, m[4])

\* the rule learned in an earlier run for the description now classified,
\* no rule having been learned for it since
LearnedBefore(k) ==
    /\ learnt[k].run < runs
    /\ ~learnt[k].found
    /\ learnt[k].desc = last.desc
    /\ \A j \in (k + 1)..(Len(learnt) - (IF last.learned THEN 1 ELSE 0)) :
          learnt[j].desc # last.desc

\* C6: a description that matched no rule and was classified by the human is
\* classified in a later quiet run, which reloads the rule file, with the same
\* payee, account and tags and without a prompt.
C6_LearnedRuleRoundTrip ==
    (last.op = "classify" /\ options.quiet) =>
        \A k \in 1..Len(learnt) :
            LearnedBefore(k) =>
                /\ ~last.prompted
                /\ last.exc = "none"
                /\ last.payee = learnt[k].payee
                /\ last.account = learnt[k].account
                /\ SameTags(last.tags, learnt[k].tags)

\* C8: in quiet mode a matched description is classified as the matched rule
\* says, with no prompt and no rule appended in memory or to the file;
\* otherwise the human is prompted.
C8_QuietFastPath ==
    last.op = "classify" =>
        LET hits == Hits(last.pre_mappings, last.desc) IN
        IF options.quiet /\ hits # {}
        THEN LET m == last.pre_mappings[Max(hits)] IN
             /\ ~last.prompted
             /\ last.payee = m[2]
             /\ last.account = m[3]
             /\ SameTags(last.tags, m[4])
             /\ mappings = last.pre_mappings
             /\ map_rows = last.pre_rows
        ELSE last.prompted

\* the human left every prompt that was shown blank
AcceptedDefaults ==
    /\ last.blank.payee
    /\ last.blank.account
    /\ options.tags => last.blank.tags

\* C9: a rule is learned when no rule matched; when a rule matched and the
\* human accepts every default, no rule is appended in memory or to the file.
C9_LearnedIffNewOrChanged ==
    (last.op = "classify" /\ last.exc = "none") =>
        /\ ~last.found => /\ last.learned
                          /\ Len(mappings) = Len(last.pre_mappings) + 1
        /\ (last.found /\ AcceptedDefaults) =>
              /\ mappings = last.pre_mappings
              /\ map_rows = last.pre_rows

(* -------------------------- claims on the tag loop --------------------- *)

RECURSIVE EditTags(_, _)
\* the edits of toks applied in order to the tag list tags: a bare token adds
\* a tag that is absent, a token with a leading "-" removes a tag
EditTags(tags, toks) ==
    IF toks = <<>> THEN tags
    ELSE LET value == Head(toks) IN
         IF value[1] = "-"
         THEN EditTags(RemoveFirst(tags, Tail(value)), Tail(toks))
         ELSE EditTags(IF InList(value, tags) THEN tags ELSE Append(tags, value),
                       Tail(toks))

\* the tag list a default text stands for
TagList(default) ==
    LET pieces == SplitWS(default) IN
    [k \in 1..Len(pieces) |->
        IF pieces[k][1] = "#" THEN Tail(pieces[k]) ELSE pieces[k]]

\* C7: in the beancount dialect the tag loop started from a non-empty default
\* applies the inputs in order and returns the tags as "#tag" tokens joined by
\* spaces.
C7_HashTagEditLoop ==
    (/\ last.op = "tags"
     /\ last.output_format = "beancount"
     /\ last.default \in {food, <<"#">> \o food}
     /\ last.end = "blank") =>
        /\ last.ret.exc = "none"
        /\ last.ret.value = HashJoin(PyList(EditTags(TagList(last.default), last.toks)))

(* ------------------------ claims on the whole program ------------------ *)

Pulled(rec) == Has(rec, "plaid2text") /\ rec.plaid2text.pulled_to_file = "True"

\* C2: after a run with marking enabled that completes, every transaction of
\* the run is marked pulled_to_file in the store and is not returned by
\* get_transactions(only_new=True) over the same dates.
C2_RunMarksPulled ==
    (last.op = "finish" /\ options.no_mark_pulled) =>
        \A k \in 1..Len(transactions) :
            LET id == transactions[k].transaction_id IN
            /\ Pulled(store[id])
            /\ id \notin Range(get_transactions(dbtype, store, order, options.from_date,
                                                options.to_date, TRUE))

\* C10: a record that is marked pulled_to_file is still marked after the
\* update_transaction call a run makes for it.
C10_UpdateNeverRegresses ==
    (last.op = "classify" /\ last.updated /\ Pulled(last.pre[last.transaction_id])) =>
        Pulled(store[last.transaction_id])

(* ------------------- more claims on the storage interface -------------- *)

\* the record carries a date_last_pulled that is neither None nor ''
Stamped(rec) ==
    /\ Has(rec.plaid2text, "date_last_pulled")
    /\ rec.plaid2text.date_last_pulled \notin {"", "None"}

\* the record's date_last_pulled, None when it has none
LastPulled(rec) ==
    IF Has(rec, "plaid2text") /\ Has(rec.plaid2text, "date_last_pulled")
    THEN rec.plaid2text.date_last_pulled
    ELSE "None"

\* C11: every record marked pulled_to_file carries a date_last_pulled that is
\* neither None nor empty, and an update_transaction call whose mark_pulled
\* is not true stamps no date_last_pulled.
C11_PulledHasDate ==
    /\ \A i \in DOMAIN store : Pulled(store[i]) => Stamped(store[i])
    /\ (/\ last.op = "update"
        /\ last.mark_pulled # "True"
        /\ last.update.transaction_id \in DOMAIN store) =>
          LastPulled(store[last.update.transaction_id])
              \in {"None", "", LastPulled(last.pre[last.update.transaction_id])}

\* update_transaction(mark_pulled=True) has marked and stamped a stored record
C11_Witness ==
    /\ last.op = "update"
    /\ last.mark_pulled = "True"
    /\ last.exc = "none"
    /\ last.update.transaction_id \in DOMAIN store
    /\ Pulled(store[last.update.transaction_id])
    /\ ~Pulled(last.pre[last.update.transaction_id])

(* ------------------ the two backends, call for call -------------------- *)

Backends == {"mongodb", "sqlite"}

\* a MongoDBStorage and a SQLiteStorage, both empty; store, order and batch
\* hold one value per backend
InitTwin ==
    /\ dbtype = "both"
    /\ config = NoConfig
    /\ store = [db \in Backends |-> EmptyStore]
    /\ order = [db \in Backends |-> <<>>]
    /\ batch = [db \in Backends |-> <<>>]
    /\ calls = 0
    /\ runs = 0
    /\ steps = 0
    /\ map_rows = <<>>
    /\ learnt = <<>>
    /\ last = NoCall
    /\ RunIdle

\* the outcome of save_transactions(b) on each backend
TwinSaved(b, r) ==
    /\ calls < MaxCalls
    /\ calls' = calls + 1
    /\ store' = [db \in Backends |-> r[db].store]
    /\ order' = [db \in Backends |-> r[db].order]
    /\ batch' = [db \in Backends |-> r[db].batch]
    /\ last' = [op |-> "save", arg |-> b, exc |-> [db \in Backends |-> r[db].exc]]
    /\ UNCHANGED <<dbtype, config, learnt, map_rows, runs, steps>>
    /\ UNCHANGED runVars

\* both storage managers are given an equal list to save
TwinSave ==
    \E b \in Batches :
        TwinSaved(b, [db \in Backends |-> save_transactions(db, store[db], order[db], b)])

\* both storage managers are asked for the same transactions
TwinGet ==
    \E from_date \in 0..MaxDate, to_date \in 0..MaxDate, only_new \in BOOLEAN :
        /\ calls < MaxCalls
        /\ calls' = calls + 1
        /\ last' = [op |-> "get", from_date |-> from_date, to_date |-> to_date,
                    only_new |-> only_new,
                    ret |-> [db \in Backends |->
                                get_transactions(db, store[db], order[db],
                                                 from_date, to_date, only_new)]]
        /\ UNCHANGED <<dbtype, config, learnt, map_rows, runs, steps>>
        /\ UNCHANGED storeVars
        /\ UNCHANGED runVars

\* the outcome of update_transaction(update, mark_pulled) on each backend
TwinUpdated(update, mark_pulled, r) ==
    /\ calls < MaxCalls
    /\ calls' = calls + 1
    /\ store' = [db \in Backends |-> r[db].store]
    /\ last' = [op |-> "update", update |-> update, mark_pulled |-> mark_pulled,
                exc |-> [db \in Backends |-> r[db].exc]]
    /\ UNCHANGED <<dbtype, config, learnt, map_rows, runs, steps, order, batch>>
    /\ UNCHANGED runVars

\* both storage managers are given the same update
TwinUpdate ==
    \E update \in Updates, mark_pulled \in {"True", "False", "None"} :
        TwinUpdated(update, mark_pulled,
                    [db \in Backends |->
                        update_transaction(db, store[db], update, mark_pulled)])

NextTwin ==
    \/ TwinSave
    \/ TwinGet
    \/ TwinUpdate

SpecTwin == InitTwin /\ [][NextTwin]_vars

\* what a stored record says, whatever the backend: the source fields and
\* the classification metadata, metadata never written counting as defaults
Logical(rec) ==
    [date |-> rec.src.date.d, name |-> rec.src.name, pending |-> rec.src.pending,
     meta |-> IF Has(rec, "plaid2text") THEN rec.plaid2text ELSE TEXT_DOC]

LogicalStore(s) == [i \in DOMAIN s |-> Logical(s[i])]

\* C12: after the same calls the two backends hold the same logical records
\* and metadata, get_transactions returns the same records in the same order
\* from both, and update_transaction succeeds on both.
C12_BackendsAgree ==
    /\ LogicalStore(store.mongodb) = LogicalStore(store.sqlite)
    /\ last.op = "get" => last.ret.mongodb = last.ret.sqlite
    /\ last.op = "update" => \A db \in Backends : last.exc[db] = "none"

(* -------------------- more claims on the whole program ------------------ *)

\* the step is a classification that the human cancelled
Cancelled == last'.op = "classify" /\ last'.exc = "KeyboardInterrupt"

\* C13: when the human cancels while an entry is classified, that step
\* appends no rule and updates no record, what earlier entries wrote stays,
\* the process ends as an interruption main() catches, and no further entry
\* of the run is classified or written.
C13_CancelStopsRun ==
    [][/\ Cancelled =>
            /\ mappings' = mappings
            /\ map_rows' = map_rows
            /\ store' = store
            /\ idx' = idx
            /\ pc' = "interrupted"
       /\ pc = "interrupted" => last'.op \notin {"classify", "finish"}]_vars

\* the second entry of a marking run is cancelled after the first one was
\* learned and written to the store
C13_Witness ==
    /\ last.op = "classify"
    /\ last.exc = "KeyboardInterrupt"
    /\ pc = "interrupted"
    /\ idx = 2
    /\ options.no_mark_pulled
    /\ Len(mappings) > 0
    /\ Has(store[transactions[1].transaction_id], "plaid2text")
    /\ store[transactions[1].transaction_id].plaid2text.payee # <<>>

\* the k-th element of the stream is the rendered entry of the k-th
\* transaction the store returned, for k in 1..Len(transactions), after skip
\* elements
EntriesInOrder(stream, skip) ==
    /\ Len(stream) = skip + Len(transactions)
    /\ \A k \in 1..Len(transactions) :
          /\ stream[skip + k].kind = "entry"
          /\ stream[skip + k].e.transaction_id = transactions[k].transaction_id

\* the header block, if any, and then one entry per transaction
HeaderThenEntries(stream) ==
    IF options.headers_file
    THEN /\ Len(stream) >= 1
         /\ stream[1].kind = "headers"
         /\ EntriesInOrder(stream, 1)
    ELSE EntriesInOrder(stream, 0)

\* C14: nothing reaches the output stream before every transaction of the run
\* is classified, and a run that completes writes the header block, if any,
\* and then one entry per transaction in the order the store returned them.
C14_OutputOnceAtEnd ==
    /\ pc = "running" => outfile = <<>>
    /\ last.op = "finish" => HeaderThenEntries(outfile)

IsJournal(x) == x.kind \in {"headers", "entry"}

\* the header block and the entries on the stream
Journal == SelectSeq(outfile, IsJournal)

\* C14, amended: the header block and the entries reach the output stream
\* only when the run completes, the header block first and then one entry
\* per transaction in the order the store returned them, as the end of the
\* stream; when the stream is sys.stdout the query lines of the prompted
\* transactions precede them.
C14_JournalOnceAtEnd ==
    /\ pc # "done" => Journal = <<>>
    /\ (pc \notin {"idle", "done"} /\ options.outfile = "file") => outfile = <<>>
    /\ last.op = "finish" =>
          /\ HeaderThenEntries(Journal)
          /\ outfile = SubSeq(outfile, 1, Len(outfile) - Len(Journal)) \o Journal

\* a run on sys.stdout completes: two query lines, the header block, two entries
C14_Witness ==
    /\ last.op = "finish"
    /\ options.outfile = "stdout"
    /\ options.headers_file
    /\ Len(transactions) = 2
    /\ Len(outfile) = 5
    /\ outfile[1].kind = "query"
    /\ outfile[4].kind = "entry"

(* --------------------- more claims on classification ------------------- *)

\* no rule matched, quiet is off and the human left every prompt blank
NewAndAccepted ==
    /\ last.op = "classify"
    /\ last.exc = "none"
    /\ ~options.quiet
    /\ Hits(last.pre_mappings, last.desc) = {}
    /\ AcceptedDefaults

\* C15: when no rule matches and the human accepts every default, the
\* classification is (description, default-expense account, no tags) and
\* exactly one rule, whose pattern is the description as it is, is appended
\* in memory and, where a rule file is in use, to the file.
C15_DefaultsForUnmatched ==
    NewAndAccepted =>
        /\ last.payee = last.desc
        /\ last.account = DefaultExpense
        /\ ~Truthy(last.tags)
        /\ mappings = Append(last.pre_mappings,
                             <<[re |-> FALSE, v |-> last.desc], last.desc,
                               DefaultExpense, last.tags>>)
        /\ options.mapping_file =>
              map_rows = Append(last.pre_rows,
                                <<last.desc, last.desc, DefaultExpense, <<>>>>)

\* the defaults are accepted, tag prompt included, for a description with a
\* leading blank
C15_Witness ==
    /\ NewAndAccepted
    /\ options.tags
    /\ last.desc = d_sp_ab
    /\ last.learned

\* the rule file holds a row whose pattern has the form /.../ and is not a
\* valid regular expression
HasBadRegex(rows) ==
    \E k \in 1..Len(rows) :
        /\ Len(rows[k]) > 1
        /\ StartsWith(Strip(rows[k][1]), "/")
        /\ EndsWith(Strip(rows[k][1]), "/")
        /\ ReError(SubSeq(Strip(rows[k][1]), 2, Len(Strip(rows[k][1])) - 1))

\* C16: with an invalid regex in the rule file the process exits with status
\* 1 when it starts (through sys.exit(1), or through the IndexError of a
\* two-field row read before the bad one): no record is updated, no rule is
\* appended, nothing is written, and no transaction is classified afterwards.
C16_BadRegexIsFatal ==
    [][/\ (last'.op = "start" /\ HasBadRegex(map_rows)) =>
            /\ pc' \in {"exit1", "crashed"}
            /\ last'.exc \in {"SystemExit", "IndexError"}
            /\ store' = store
            /\ map_rows' = map_rows
            /\ journal_lines' = <<>>
            /\ outfile' = <<>>
       /\ pc = "exit1" => last'.op \notin {"classify", "finish"}]_vars

\* the process has exited over the rule file while the store held
\* transactions to classify
C16_Witness ==
    /\ pc = "exit1"
    /\ last.op = "start"
    /\ Len(last.ret) > 0
    /\ HasBadRegex(map_rows)

IsPrefix(s, t) == Len(s) <= Len(t) /\ SubSeq(t, 1, Len(s)) = s

\* a step of a run that classifies a transaction
ClassifyStep == pc = "running" /\ last'.op = "classify"

\* C17 as stated: the rule file only grows at its end, the rules in memory
\* only grow at their end during a run, and every rule appended in memory
\* comes with exactly one line appended to the file in the same step.
C17_RulesAppendOnly ==
    [][/\ IsPrefix(map_rows, map_rows')
       /\ ClassifyStep =>
            /\ IsPrefix(mappings, mappings')
            /\ Len(mappings') - Len(mappings) = Len(map_rows') - Len(map_rows)
            /\ Len(mappings') - Len(mappings) \in {0, 1}]_vars

\* C17 amended: the same, the line in the file being written where a rule
\* file is in use; without one, the rules grow in memory alone.
C17_RulesAppendOnlyWithFile ==
    [][/\ IsPrefix(map_rows, map_rows')
       /\ ClassifyStep =>
            /\ IsPrefix(mappings, mappings')
            /\ Len(mappings') - Len(mappings) \in {0, 1}
            /\ Len(map_rows') - Len(map_rows) =
                   (IF options.mapping_file THEN Len(mappings') - Len(mappings) ELSE 0)]_vars

\* a second rule has been learnt into a rule file that already held rules
C17_Witness ==
    /\ last.op = "classify"
    /\ last.learned
    /\ options.mapping_file
    /\ Len(last.pre_rows) > 1
    /\ Len(map_rows) = Len(last.pre_rows) + 1
    /\ Len(learnt) > 1

\* a regex rule of ms whose pattern, of literal characters, occurs somewhere
\* in desc, letter case ignored
RegexOccursIn(ms, desc) ==
    \E k \in 1..Len(ms) :
        /\ ms[k][1].re
        /\ IsSubstr(LowerStr(ms[k][1].v), LowerStr(desc))

\* C18: a regex rule whose pattern matches the description or any part of
\* it, wherever that part lies, is a hit: the classification finds a rule.
C18_RegexHitsAnywhere ==
    (/\ last.op = "classify"
     /\ RegexOccursIn(last.pre_mappings, last.desc)) => last.found

\* the date of record i lies within the bounds given to the last call
InBounds(i) ==
    /\ last.from_date # NoDate => last.from_date <= DateOf(i)
    /\ last.to_date # NoDate => DateOf(i) <= last.to_date

\* C19: get_transactions(only_new = True) returns no record whose metadata
\* has pulled_to_file = True, returns every record within the date bounds
\* that is not pulled, and with no bound returns exactly the records that are
\* not pulled, in both backends.
C19_OnlyNewFilters ==
    (last.op = "get" /\ last.only_new) =>
        /\ \A i \in Range(last.ret) : ~Pulled(store[i])
        /\ \A i \in DOMAIN store :
              (~Pulled(store[i]) /\ InBounds(i)) => i \in Range(last.ret)
        /\ (last.from_date = NoDate /\ last.to_date = NoDate) =>
              Range(last.ret) = {i \in DOMAIN store : ~Pulled(store[i])}

(* --------------------- more claims on the whole program --------------- *)

\* the process was started with --no-mark-pulled
NonMarking == pc # "idle" /\ ~options.no_mark_pulled

\* the ids of the run's transactions, in order
RunIds == [k \in 1..Len(transactions) |-> transactions[k].transaction_id]

\* C20: a run given --no-mark-pulled classifies and renders every entry and
\* leaves every record as it was, so that what get_transactions(only_new =
\* True) returned to the run is what it returns once the run is over.
C20_NonMarkingLeavesStore ==
    /\ (NonMarking /\ last.op = "classify") =>
          /\ ~last.updated
          /\ store = last.pre
          /\ last.exc = "none" =>
                journal_lines[Len(journal_lines)] =
                    journal_entry(transactions[idx - 1], options,
                                  last.payee, last.account, last.tags)
    /\ (NonMarking /\ last.op = "finish") =>
          /\ Len(journal_lines) = Len(transactions)
          /\ ~options.all_transactions =>
                get_transactions(dbtype, store, order, options.from_date,
                                 options.to_date, TRUE) = RunIds

\* a run given --no-mark-pulled, over new transactions only, has rendered
\* its two entries and is over
C20_Witness ==
    /\ NonMarking
    /\ last.op = "finish"
    /\ ~options.all_transactions
    /\ Len(transactions) = 2
    /\ Len(journal_lines) = 2

(* ------------------------ more claims on the tag loop ------------------ *)

\* the tag text of an entry rendered with the dialect's default template:
\* what follows ' ; ' (ledger) or ' ' (beancount) in the tags field
RenderedTagText(output_format, tags) ==
    LET field == journal_entry(Tx("t1", 1, d_ab), [output_format |-> output_format],
                               d_ab, DefaultExpense, PyStr(tags)).tags
        lead == IF output_format = "beancount" THEN 1 ELSE 3
    IN  SubSeq(field, lead + 1, Len(field))

\* the tags that text stands for in the dialect's syntax, split as the
\* renderer splits the tag column of a rule; no text, no tags
ParsedTags(output_format, text) ==
    IF text = <<>> THEN {}
    ELSE TagsOfMappings(<< <<[re |-> FALSE, v |-> d_ab], d_ab, DefaultExpense,
                              PyList(<<text>>)>> >>, output_format)

\* C21: the tags the edit loop produced from an empty default, rendered with
\* the dialect's default template and split again by the dialect's tag syntax,
\* are exactly the tags supplied: none more, none empty.
C21_TagRoundTrip ==
    (/\ last.op = "tags"
     /\ last.default = <<>>
     /\ last.ret.exc = "none") =>
        ParsedTags(last.output_format,
                   RenderedTagText(last.output_format, last.ret.value))
            = Range(EditTags(<<>>, last.toks))

(* --------------------------- claims on rendering ----------------------- *)

\* C22: rendering with a template that references an addon field the record
\* does not carry succeeds, the empty string standing for that field.
C22_MissingAddonIsEmpty ==
    (/\ last.op = "journal_entry"
     /\ "addon_memo" \in last.template
     /\ ~last.carried) =>
        /\ last.ret.exc = "none"
        /\ last.ret.text["addon_memo"] = <<>>

(* ------------------- claims on the suggestion sets --------------------- *)

\* the tags of a classification, in the dialect's syntax
TagsOf(output_format, tags) ==
    IF Truthy(tags) THEN ParsedTags(output_format, tags.v) \ {<<>>} ELSE {}

\* C23: when a rule is learned, its payee, its account and every one of its
\* tags are in possible_payees, possible_accounts and possible_tags after
\* the append.
C23_LearningExtendsSideTables ==
    (last.op = "classify" /\ last.learned) =>
        /\ last.payee \in possible_payees
        /\ last.account \in possible_accounts
        /\ TagsOf(options.output_format, last.tags) \subseteq possible_tags

(* ---------------------- claims on storage failures --------------------- *)

\* the last classification made the callback, and the update_transaction
\* call it made on the store of that moment failed
FailedUpdate ==
    /\ last.op = "classify"
    /\ last.updated
    /\ update_transaction(dbtype, last.pre,
                          [transaction_id |-> last.transaction_id, tags |-> last.tags,
                           associated_account |-> last.account, payee |-> last.payee,
                           posting_account |-> <<"A">>], "False").exc # "none"

C25_BlankKeepsDefault ==
    (last.op = "classify" /\ last.exc = "none" /\ last.prompted) =>
        /\ last.blank.payee => last.payee = last.proposal.payee
        /\ last.blank.account => last.account = last.proposal.account
        /\ last.proposal.payee # <<>> => last.payee # <<>>
        /\ last.proposal.account # <<>> => last.account # <<>>
        /\ (options.tags /\ last.blank.tags) =>
              /\ ~Truthy(last.proposal.tags) => ~Truthy(last.tags)
              /\ options.output_format = "ledger" =>
                    TagsOf("ledger", last.tags) = TagsOf("ledger", last.proposal.tags)

\* every prompt was left blank at a proposal that came from a rule with tags
C25_Witness ==
    /\ last.op = "classify"
    /\ last.exc = "none"
    /\ last.prompted
    /\ last.found
    /\ AcceptedDefaults
    /\ options.tags
    /\ options.output_format = "ledger"
    /\ Truthy(last.proposal.tags)
    /\ last.payee = <<"P">>

(* ------------------ claims on the tags of a classification ------------- *)

\* the tags of a ledger default, in order
LedgerTagList(tags) ==
    IF Truthy(tags) THEN NonEmpty(Split(tags.v, ":")) ELSE <<>>

\* the tags the human's answers make of the proposal's tags
EditedTags == EditTags(LedgerTagList(last.proposal.tags), last.toks)

\* C26: in the ledger dialect the tags of a classification are the
\* proposal's tags with the human's additions and removals applied in order;
\* when a matched rule had tags and the human removed them all, the
\* classification has no tags, the entry is rendered without tags, and the
\* change is learned as a new rule.
C26_TagsAreTheEditedDefault ==
    (/\ last.op = "classify"
     /\ last.exc = "none"
     /\ last.prompted
     /\ options.tags
     /\ options.output_format = "ledger") =>
        /\ TagsOf("ledger", last.tags) = Range(EditedTags)
        /\ (last.found /\ Truthy(last.proposal.tags) /\ EditedTags = <<>>) =>
              /\ ~Truthy(last.tags)
              /\ journal_lines[Len(journal_lines)].tags = <<>>
              /\ last.modified
              /\ last.learned

(* --------------------- claims on a cancelled run's output -------------- *)

\* the rendered entry e has been written to the output stream
Written(e) ==
    \E j \in 1..Len(outfile) : outfile[j].kind = "entry" /\ outfile[j].e = e

\* C27: when a run is cancelled at transaction k, the entries rendered for
\* the transactions before k are in the output stream.
C27_CancelKeepsRenderedEntries ==
    pc = "interrupted" =>
        \A k \in 1..(idx - 1) : Written(journal_lines[k])

(* ------------------- claims on pending transactions -------------------- *)

\* C28: no stored record is a pending transaction, and get_transactions
\* returns none, in either backend.
C28_PendingNeverStored ==
    /\ \A i \in DOMAIN store : ~store[i].src.pending
    /\ last.op = "get" => \A i \in Range(last.ret) : ~store[i].src.pending

(* ------------------ claims on rules learned within a run --------------- *)

\* the rule learned earlier in this run for the description now classified,
\* no rule having been learned for it since
LearnedInRun(k) ==
    /\ learnt[k].run = runs
    /\ learnt[k].desc = last.desc
    /\ k <= Len(learnt) - (IF last.learned THEN 1 ELSE 0)
    /\ \A j \in (k + 1)..(Len(learnt) - (IF last.learned THEN 1 ELSE 0)) :
          learnt[j].desc # last.desc

\* C29: in a quiet run, a transaction whose description had a rule learned
\* earlier in the same run is classified without a prompt with that rule's
\* payee, account and tags, the whole tag text.
C29_LearnedRuleAppliesInRun ==
    (last.op = "classify" /\ options.quiet) =>
        \A k \in 1..Len(learnt) :
            LearnedInRun(k) =>
                /\ ~last.prompted
                /\ last.payee = learnt[k].payee
                /\ last.account = learnt[k].account
                /\ SameTags(last.tags, learnt[k].tags)

(* ------------------ claims on update_transaction's frame --------------- *)

\* the metadata field f of the record is what it was before the last call
Kept(i, f) ==
    (Has(last.pre[i], "plaid2text") /\ Has(last.pre[i].plaid2text, f)) =>
        /\ Has(store[i], "plaid2text")
        /\ Has(store[i].plaid2text, f)
        /\ store[i].plaid2text[f] = last.pre[i].plaid2text[f]

\* C30: update_transaction creates and deletes no record, changes no record
\* but the one it names, and leaves that record's date_downloaded, and its
\* date_last_pulled when mark_pulled is not true, as they were.
C30_UpdateInPlace ==
    last.op = "update" =>
        /\ DOMAIN store = DOMAIN last.pre
        /\ \A i \in DOMAIN store :
              IF i = last.update.transaction_id
              THEN /\ Kept(i, "date_downloaded")
                   /\ last.mark_pulled # "True" => Kept(i, "date_last_pulled")
              ELSE store[i] = last.pre[i]

====
